---- MODULE Spec2Model ----
(***************************************************************************)
(* A model of the Tensora miner node: the artifact cache                   *)
(* (services/shared/ipfs_utils.py), the chain client                       *)
(* (services/shared/rpc_client.py) and the two inference engines with      *)
(* their result hashing (services/miner-node/engine/*.py).                 *)
(*                                                                         *)
(* Five specifications share the module's variables:                       *)
(*   Spec        the artifact cache under concurrent coroutines            *)
(*   SpecRpc     TensoraRPC.send_transaction against a chain               *)
(*   SpecHash    compute_hash over bounded structured values               *)
(*   SpecEngine  VLLMEngine.run_inference / run_batch, ONNXEngine          *)
(*   SpecPublish upload_to_ipfs and pin_to_ipfs against an IPFS node       *)
(* Each one holds the other components' variables at their idle values.    *)
(***************************************************************************)
EXTENDS Integers, Sequences, FiniteSets, TLC

VARIABLES
    \* ---- artifact cache (ipfs_utils.py) ----
    cache,      \* the directory ~/.tensora/ipfs_cache: bare address -> file
    tpc,        \* per coroutine: where it is inside download_from_ipfs
    tcid,       \* per coroutine: the bare address it works on
    tpos,       \* per coroutine: offset (in chunks) of its open file object
    tret,       \* per coroutine: the path it returned, or NoPath
    gets,       \* per address: HTTP GETs started so far (the gateway's view)
    handed,     \* addresses whose cache path some call has returned
    calls,      \* calls started so far (bounds the run)
    \* ---- chain client (rpc_client.py) and the chain it talks to ----
    chainCount, \* eth.get_transaction_count(wallet): transactions mined
    sent,       \* every transaction the node accepted, in broadcast order
    txState,    \* per broadcast transaction: pending, dropped, ok, reverted
    recorded,   \* jobs with a result recorded on chain
    timedOut,   \* jobs whose submitResult call timed out on the receipt
    rpcPc,      \* where the running send_transaction call is
    rpcJob,     \* its jobId argument
    rpcTx,      \* the transaction it builds: nonce, gas, and the estimate (0: none)
    rpcHash,    \* tx_hash once broadcast (index into sent), else 0
    rpcReceipt, \* the receipt it obtained, if any
    rpcOut,     \* how the call ended: returned or raised, and the value
    sends,      \* send_transaction calls started so far (bounds the run)
    \* ---- result hashing (engine/*.py compute_hash) ----
    href,       \* the structured value first passed to compute_hash
    hfirst,     \* what compute_hash returned for href
    hval,       \* the same data as later rebuilt: keys or arrays reordered
    hres,       \* what compute_hash returned for hval
    hby,        \* the engine whose compute_hash returned hres
    \* ---- inference engines (engine/vllm_runtime.py, onnx_runtime.py) ----
    runA,       \* the first finished engine call: arguments, outputs, hash
    runB,       \* the second finished engine call
    bPc,        \* where the running run_batch call is: idle or loop
    bArgs,      \* its arguments: model, prompts, batch_size, max_tokens
    bI,         \* its loop variable i
    bAll,       \* its all_outputs
    \* ---- publication (ipfs_utils.py upload_to_ipfs, pin_to_ipfs) ----
    pubPc,      \* per coroutine: idle, posting (awaiting the node) or done
    pubOp,      \* per coroutine: the operation it runs: upload or pin
    pubArg,     \* per coroutine: the data uploaded, or the arg value pinned
    pubAddr,    \* per coroutine: the address pin_to_ipfs was called with
    pubResp,    \* per coroutine: how the node answered the POST
    pubOut,     \* per coroutine: how the call ended and what it returned
    published,  \* the node's store: data it has added under a CID
    pinned      \* the node's pin set: the arg values of accepted pins

ipfsVars == <<cache, tpc, tcid, tpos, tret, gets, handed, calls>>

chainVars == <<chainCount, sent, txState, recorded>>

callVars == <<rpcPc, rpcJob, rpcTx, rpcHash, rpcReceipt, rpcOut>>

rpcVars == <<chainVars, callVars, timedOut, sends>>

hashVars == <<href, hfirst, hval, hres, hby>>

engVars == <<runA, runB, bPc, bArgs, bI, bAll>>

pubVars == <<pubPc, pubOp, pubArg, pubAddr, pubResp, pubOut, published, pinned>>

vars == <<ipfsVars, rpcVars, hashVars, engVars, pubVars>>

(***************************************************************************)
(* Bounds                                                                  *)
(***************************************************************************)
NumTasks == 2       \* coroutines sharing one event loop
NumChunks == 2      \* 8192-byte chunks per artifact
MaxCalls == 3       \* download_from_ipfs calls per run
MaxSends == 2       \* send_transaction calls per run
NumJobs == 2        \* job ids
MaxListLen == 2     \* elements per output array
MaxPrompts == 3     \* prompts per engine call
MaxBatch == 3       \* largest batch_size

Tasks == 1..NumTasks
Cids == {"QmA", "QmB"}

(***************************************************************************)
(* Artifact cache: services/shared/ipfs_utils.py                           *)
(***************************************************************************)
NoFile == [exists |-> FALSE, data |-> <<>>]
NoPath == <<>>
Hole == <<"zero", 0>>

\* An address as the caller gives it: the bare CID, or the CID behind the
\* "ipfs://" scheme.
Addresses == {<<c>> : c \in Cids} \cup {<<"ipfs://", c>> : c \in Cids}

\* ipfs_utils.py 33-34: cid[7:] when cid.startswith('ipfs://')
StripPrefix(a) == IF Head(a) = "ipfs://" THEN Tail(a)[1] ELSE a[1]

\* ipfs_utils.py 37,41: cache_dir / cid
CachePath(c) == <<"ipfs_cache", c>>

NeverCached(c) == FALSE

\* ipfs_utils.py 42: cache_path.exists()
Exists(c) == cache[c].exists

\* The bytes the content-addressed network holds for an address, as the
\* chunks response.content.iter_chunked(8192) yields (ipfs_utils.py 56).
Content(c) == [i \in 1..NumChunks |-> <<c, i>>]

\* ipfs_utils.py 49-56: the chunks the gateway at {gateway}/ipfs/{cid} sends.
\* The gateway is a remote HTTP server the node does not control.  The one
\* of the model sends the bytes the address names for QmA and other bytes
\* for QmB (a faulty or hostile gateway, a corrupted transfer), so that both
\* a sound and an unsound transfer occur.
Served(c) ==
    IF c = "QmB" THEN [i \in 1..NumChunks |-> <<"other", i>>] ELSE Content(c)

\* ipfs_utils.py 106-119: verify_cid(data, expected_cid): the SHA-256 of the
\* data is compared with the address.  The digest is ideal: two byte strings
\* have one digest only when they are equal, and the address c is the one
\* that names Content(c).
verify_cid(data, expected_cid) ==
    <<"sha256", data>> = <<"sha256", Content(expected_cid)>>

\* ipfs_utils.py 55: open(cache_path, 'wb') creates or truncates the file
OpenWb(c) == [cache EXCEPT ![c] = [exists |-> TRUE, data |-> <<>>]]

\* ipfs_utils.py 57: f.write(chunk) at the file object's own offset; a write
\* past the end of a file another writer truncated leaves a hole of zeros.
WriteAt(file, pos, chunk) ==
    [i \in 1..(IF Len(file) > pos + 1 THEN Len(file) ELSE pos + 1) |->
        IF i = pos + 1 THEN chunk
        ELSE IF i <= Len(file) THEN file[i]
        ELSE Hole]

IpfsInit ==
    /\ cache = [c \in Cids |-> NoFile]
    /\ tpc = [t \in Tasks |-> "idle"]
    /\ tcid = [t \in Tasks |-> "QmA"]
    /\ tpos = [t \in Tasks |-> 0]
    /\ tret = [t \in Tasks |-> NoPath]
    /\ gets = [c \in Cids |-> 0]
    /\ handed = {}
    /\ calls = 0

\* download_from_ipfs, lines 32-50: strip the prefix, check the cache, and on
\* a hit return the path at once; on a miss start the GET. Nothing between
\* the check and session.get suspends on another coroutine's progress.
Download(t, a) ==
    /\ UNCHANGED <<rpcVars, hashVars, engVars, pubVars>>
    /\ tpc[t] = "idle"
    /\ calls < MaxCalls
    /\ calls' = calls + 1
    /\ tcid' = [tcid EXCEPT ![t] = StripPrefix(a)]
    /\ tpos' = [tpos EXCEPT ![t] = 0]
    /\ IF Exists(StripPrefix(a))
       THEN /\ tpc' = [tpc EXCEPT ![t] = "returned"]
            /\ tret' = [tret EXCEPT ![t] = CachePath(StripPrefix(a))]
            /\ handed' = handed \cup {StripPrefix(a)}
            /\ gets' = gets
       ELSE /\ tpc' = [tpc EXCEPT ![t] = "get"]
            /\ tret' = [tret EXCEPT ![t] = NoPath]
            /\ handed' = handed
            /\ gets' = [gets EXCEPT ![StripPrefix(a)] = @ + 1]
    /\ UNCHANGED cache

\* lines 50-55: the response arrives with status 200 and the cache file is
\* opened for writing.
Response200(t) ==
    /\ UNCHANGED <<rpcVars, hashVars, engVars, pubVars>>
    /\ tpc[t] = "get"
    /\ tpc' = [tpc EXCEPT ![t] = "stream"]
    /\ cache' = OpenWb(tcid[t])
    /\ UNCHANGED <<tcid, tpos, tret, gets, handed, calls>>

\* lines 50-52, 62-64: a non-200 answer, a connection error or the total
\* timeout before the body starts: the exception is logged and re-raised.
ResponseFail(t) ==
    /\ UNCHANGED <<rpcVars, hashVars, engVars, pubVars>>
    /\ tpc[t] = "get"
    /\ tpc' = [tpc EXCEPT ![t] = "raised"]
    /\ UNCHANGED <<cache, tcid, tpos, tret, gets, handed, calls>>

\* lines 56-57: one iteration of the async for: the next chunk the gateway
\* sent is written.
WriteChunk(t) ==
    /\ UNCHANGED <<rpcVars, hashVars, engVars, pubVars>>
    /\ tpc[t] = "stream"
    /\ tpos[t] < NumChunks
    /\ cache' = [cache EXCEPT ![tcid[t]].data =
                    WriteAt(@, tpos[t], Served(tcid[t])[tpos[t] + 1])]
    /\ tpos' = [tpos EXCEPT ![t] = @ + 1]
    /\ UNCHANGED <<tpc, tcid, tret, gets, handed, calls>>

\* lines 56-60: the stream ends, the file is closed and the path returned.
Finish(t) ==
    /\ UNCHANGED <<rpcVars, hashVars, engVars, pubVars>>
    /\ tpc[t] = "stream"
    /\ tpos[t] = NumChunks
    /\ tpc' = [tpc EXCEPT ![t] = "returned"]
    /\ tret' = [tret EXCEPT ![t] = CachePath(tcid[t])]
    /\ handed' = handed \cup {tcid[t]}
    /\ UNCHANGED <<cache, tcid, tpos, gets, calls>>

\* lines 56, 62-64: the timeout or a connection error while streaming: the
\* with-block closes the file, which stays as written, and the call raises.
StreamFail(t) ==
    /\ UNCHANGED <<rpcVars, hashVars, engVars, pubVars>>
    /\ tpc[t] = "stream"
    /\ tpc' = [tpc EXCEPT ![t] = "raised"]
    /\ UNCHANGED <<cache, tcid, tpos, tret, gets, handed, calls>>

\* The caller takes the result (or the exception); the coroutine slot is
\* free for the next call.
Done(t) ==
    /\ UNCHANGED <<rpcVars, hashVars, engVars, pubVars>>
    /\ tpc[t] \in {"returned", "raised"}
    /\ calls < MaxCalls
    /\ tpc' = [tpc EXCEPT ![t] = "idle"]
    /\ tret' = [tret EXCEPT ![t] = NoPath]
    /\ UNCHANGED <<cache, tcid, tpos, gets, handed, calls>>

(***************************************************************************)
(* Publication: upload_to_ipfs and pin_to_ipfs (ipfs_utils.py 67-141)      *)
(***************************************************************************)
Datas == {"d1", "d2"}

\* How the node can answer a POST: 200 with a Hash field, 200 with a body
\* that is not JSON or has no Hash, another status, or no answer at all
\* (refused connection, reset, timeout).
Responses == {"ok", "malformed", "non200", "unreachable"}

NoId == [algo |-> "", of |-> ""]

\* ipfs_utils.py 92: result['Hash'], the CID the node assigned to the data
Cid(data) == [algo |-> "cid", of |-> data]

\* ipfs_utils.py 101: hashlib.sha256(data.encode()).hexdigest()
ContentHash(data) == [algo |-> "sha256", of |-> data]

\* ipfs_utils.py 95, 103: the f-strings "ipfs://{cid}" and "0x{content_hash}"
Address(prefix, id) == [prefix |-> prefix, id |-> id]

NoAddress == Address("", NoId)

NoPubOutcome == [kind |-> "none", value |-> NoAddress]

Returned(addr) == [kind |-> "returned", value |-> addr]

FallbackAsIpfs(resp, data) ==
    IF resp = "ok"
    THEN Returned(Address("ipfs://", Cid(data)))
    ELSE Returned(Address("ipfs://", ContentHash(data)))

\* ipfs_utils.py 78-103: the body of upload_to_ipfs once the POST has been
\* answered.  A status other than 200 raises (88-89), a body that is not JSON
\* raises in response.json() (91), a body without Hash raises KeyError (92),
\* a failed connection raises in session.post (87); all of them land in the
\* except clause (97-103), which returns the local hash.
upload_to_ipfs(resp, data) ==
    IF resp = "ok"
    THEN Returned(Address("ipfs://", Cid(data)))
    ELSE Returned(Address("0x", ContentHash(data)))

\* The timeout argument the code passes with each network wait: "explicit"
\* for session.get(url, timeout=ClientTimeout(total=timeout)) (ipfs_utils.py
\* 50) and wait_for_transaction_receipt(tx_hash, timeout=120) (rpc_client.py
\* 141); "none" for session.post(f"{ipfs_api}/add", data=form_data)
\* (ipfs_utils.py 87), session.post(f"{ipfs_api}/pin/add?arg={cid}")
\* (ipfs_utils.py 135) and the JSON-RPC requests of send_transaction
\* (rpc_client.py 117-136), which pass no timeout: there only the HTTP
\* library's default applies.
RequestTimeout(op) ==
    CASE op = "download" -> "explicit"
      [] op = "receipt" -> "explicit"
      [] op = "upload" -> "none"
      [] op = "pin" -> "none"
      [] op = "rpc" -> "none"

PinRaisesOnFailure(resp) ==
    IF resp = "ok" THEN Returned(NoAddress)
    ELSE [kind |-> "raised", value |-> NoAddress]

\* ipfs_utils.py 133-141: the body of pin_to_ipfs once the POST has been
\* answered: 200 is logged as pinned (136-137), another status as a warning
\* (138-139), an exception of session.post is caught and logged (140-141);
\* the function falls off its end and returns None.
pin_to_ipfs(resp) == Returned(NoAddress)

\* The artifact cache after one download_from_ipfs('QmA') has returned and
\* its result was taken: the state in which results are published.
IpfsCachedA ==
    /\ cache = [c \in Cids |->
                  IF c = "QmA" THEN [exists |-> TRUE, data |-> Content(c)]
                  ELSE NoFile]
    /\ tpc = [t \in Tasks |-> "idle"]
    /\ tcid = [t \in Tasks |-> "QmA"]
    /\ tpos = [t \in Tasks |-> IF t = 1 THEN NumChunks ELSE 0]
    /\ tret = [t \in Tasks |-> NoPath]
    /\ gets = [c \in Cids |-> IF c = "QmA" THEN 1 ELSE 0]
    /\ handed = {"QmA"}
    /\ calls = 1

PubInit ==
    /\ pubPc = [t \in Tasks |-> "idle"]
    /\ pubOp = [t \in Tasks |-> "none"]
    /\ pubArg = [t \in Tasks |-> ""]
    /\ pubAddr = [t \in Tasks |-> <<>>]
    /\ pubResp = [t \in Tasks |-> "none"]
    /\ pubOut = [t \in Tasks |-> NoPubOutcome]
    /\ published = {}
    /\ pinned = {}

\* lines 78-87: upload_to_ipfs(data) opens a session and posts the data to
\* {ipfs_api}/add.
Upload(t, data) ==
    /\ UNCHANGED <<ipfsVars, rpcVars, hashVars, engVars>>
    /\ pubPc[t] = "idle"
    /\ pubPc' = [pubPc EXCEPT ![t] = "posting"]
    /\ pubOp' = [pubOp EXCEPT ![t] = "upload"]
    /\ pubArg' = [pubArg EXCEPT ![t] = data]
    /\ UNCHANGED <<pubAddr, pubResp, pubOut, published, pinned>>

\* lines 87-103: the node answers (or fails to); the call returns.  The node
\* holds the data under its CID when it answered 200 with the Hash.
UploadResponse(t, resp) ==
    /\ UNCHANGED <<ipfsVars, rpcVars, hashVars, engVars>>
    /\ pubPc[t] = "posting"
    /\ pubOp[t] = "upload"
    /\ pubResp' = [pubResp EXCEPT ![t] = resp]
    /\ pubOut' = [pubOut EXCEPT ![t] = upload_to_ipfs(resp, pubArg[t])]
    /\ published' = IF resp = "ok" THEN published \cup {pubArg[t]}
                    ELSE published
    /\ pubPc' = [pubPc EXCEPT ![t] = "done"]
    /\ UNCHANGED <<pubOp, pubArg, pubAddr, pinned>>

\* lines 130-135: pin_to_ipfs(cid) strips the prefix and posts to
\* {ipfs_api}/pin/add?arg={cid}.
Pin(t, a) ==
    /\ UNCHANGED <<ipfsVars, rpcVars, hashVars, engVars>>
    /\ pubPc[t] = "idle"
    /\ pubPc' = [pubPc EXCEPT ![t] = "posting"]
    /\ pubOp' = [pubOp EXCEPT ![t] = "pin"]
    /\ pubArg' = [pubArg EXCEPT ![t] = StripPrefix(a)]
    /\ pubAddr' = [pubAddr EXCEPT ![t] = a]
    /\ UNCHANGED <<pubResp, pubOut, published, pinned>>

\* lines 135-141: 200 is logged as pinned, another status or an exception as
\* a warning; the function returns None in every case.
PinResponse(t, resp) ==
    /\ UNCHANGED <<ipfsVars, rpcVars, hashVars, engVars>>
    /\ pubPc[t] = "posting"
    /\ pubOp[t] = "pin"
    /\ resp # "malformed"
    /\ pubResp' = [pubResp EXCEPT ![t] = resp]
    /\ pubOut' = [pubOut EXCEPT ![t] = pin_to_ipfs(resp)]
    /\ pinned' = IF resp = "ok" THEN pinned \cup {pubArg[t]} ELSE pinned
    /\ pubPc' = [pubPc EXCEPT ![t] = "done"]
    /\ UNCHANGED <<pubOp, pubArg, pubAddr, published>>

\* The caller takes the result; the coroutine slot is free again.
PubDone(t) ==
    /\ UNCHANGED <<ipfsVars, rpcVars, hashVars, engVars>>
    /\ pubPc[t] = "done"
    /\ pubPc' = [pubPc EXCEPT ![t] = "idle"]
    /\ pubOp' = [pubOp EXCEPT ![t] = "none"]
    /\ pubArg' = [pubArg EXCEPT ![t] = ""]
    /\ pubAddr' = [pubAddr EXCEPT ![t] = <<>>]
    /\ pubResp' = [pubResp EXCEPT ![t] = "none"]
    /\ pubOut' = [pubOut EXCEPT ![t] = NoPubOutcome]
    /\ UNCHANGED <<published, pinned>>

NextPublish ==
    \/ \E t \in Tasks, data \in Datas : Upload(t, data)
    \/ \E t \in Tasks, resp \in Responses : UploadResponse(t, resp)
    \/ \E t \in Tasks, a \in Addresses : Pin(t, a)
    \/ \E t \in Tasks, resp \in Responses : PinResponse(t, resp)
    \/ \E t \in Tasks : PubDone(t)

(***************************************************************************)
(* Chain client: services/shared/rpc_client.py                             *)
(***************************************************************************)
Jobs == 1..NumJobs
GasEstimates == {21000, 100001}

\* rpc_client.py 123: 'gas': 500000
DefaultGas == 500000

NoTx == [nonce |-> 0, gas |-> 0, estimate |-> 0]
NoReceipt == [got |-> FALSE, status |-> 0]
NoOutcome == [kind |-> "none", value |-> 0]

RpcIdle ==
    /\ rpcPc = "idle"
    /\ rpcJob = 1
    /\ rpcTx = NoTx
    /\ rpcHash = 0
    /\ rpcReceipt = NoReceipt
    /\ rpcOut = NoOutcome

RpcInit ==
    /\ chainCount = 0
    /\ sent = <<>>
    /\ txState = <<>>
    /\ recorded = {}
    /\ timedOut = {}
    /\ sends = 0
    /\ RpcIdle

\* rpc_client.py 117: get_transaction_count(self.wallet_address) with the
\* default block identifier: the count of mined transactions; a transaction
\* that is broadcast and still pending is not counted.
GetTransactionCount == chainCount

NoMargin(est) == est

\* rpc_client.py 130: int(estimated_gas * 1.2)
GasWithMargin(est) == (est * 12) \div 10

\* Faulty variant: the receipt's status is not looked at.
AfterReceiptIgnoringStatus(status, hash) == [kind |-> "returned", value |-> hash]

\* rpc_client.py 143-147: the hash is returned when receipt['status'] == 1,
\* otherwise an exception is raised.
AfterReceipt(status, hash) ==
    IF status = 1 THEN [kind |-> "returned", value |-> hash]
    ELSE [kind |-> "raised", value |-> 0]

\* rpc_client.py 149-151: every exception is logged and re-raised.
Raised == [kind |-> "raised", value |-> 0]

\* receipt['status'] of a mined transaction: 1 success, 0 failure.
ReceiptStatus(i) == IF txState[i] = "ok" THEN 1 ELSE 0

\* The pending transactions of the account that carry nonce n.
PendingWith(n) == {i \in DOMAIN sent : sent[i].nonce = n /\ txState[i] = "pending"}

\* send_transaction, lines 105-125: submitResult(job, ...) is bound, the nonce
\* is read and the transaction is built with the default gas limit.
Build(j) ==
    /\ UNCHANGED <<ipfsVars, hashVars, engVars, pubVars>>
    /\ rpcPc = "idle"
    /\ sends < MaxSends
    /\ sends' = sends + 1
    /\ rpcPc' = "built"
    /\ rpcJob' = j
    /\ rpcTx' = [nonce |-> GetTransactionCount, gas |-> DefaultGas, estimate |-> 0]
    /\ rpcHash' = 0
    /\ rpcReceipt' = NoReceipt
    /\ rpcOut' = NoOutcome
    /\ UNCHANGED <<chainVars, timedOut>>

\* lines 106-125, 149-151: loading the ABI, binding the function or
\* build_transaction raises.
BuildFail(j) ==
    /\ UNCHANGED <<ipfsVars, hashVars, engVars, pubVars>>
    /\ rpcPc = "idle"
    /\ sends < MaxSends
    /\ sends' = sends + 1
    /\ rpcPc' = "done"
    /\ rpcJob' = j
    /\ rpcTx' = NoTx
    /\ rpcHash' = 0
    /\ rpcReceipt' = NoReceipt
    /\ rpcOut' = Raised
    /\ UNCHANGED <<chainVars, timedOut>>

\* lines 128-130: the estimate succeeds and the limit gets the 20% margin.
EstimateOk(est) ==
    /\ UNCHANGED <<ipfsVars, hashVars, engVars, pubVars>>
    /\ rpcPc = "built"
    /\ rpcPc' = "estimated"
    /\ rpcTx' = [rpcTx EXCEPT !.gas = GasWithMargin(est), !.estimate = est]
    /\ UNCHANGED <<chainVars, timedOut, sends, rpcJob, rpcHash, rpcReceipt, rpcOut>>

\* lines 131-132: the estimate raises (e.g. the call would revert); it is
\* logged and the default limit stays.
EstimateFail ==
    /\ UNCHANGED <<ipfsVars, hashVars, engVars, pubVars>>
    /\ rpcPc = "built"
    /\ rpcPc' = "estimated"
    /\ UNCHANGED <<chainVars, timedOut, sends, rpcJob, rpcTx, rpcHash, rpcReceipt, rpcOut>>

\* lines 135-138: the transaction is signed and the node accepts it. A
\* pending transaction of the account with the same nonce is replaced.
Broadcast ==
    /\ UNCHANGED <<ipfsVars, hashVars, engVars, pubVars>>
    /\ rpcPc = "estimated"
    /\ rpcTx.nonce >= chainCount
    /\ rpcPc' = "waiting"
    /\ sent' = Append(sent, [nonce |-> rpcTx.nonce, gas |-> rpcTx.gas,
                             estimate |-> rpcTx.estimate,
                             job |-> rpcJob,
                             afterTimeout |-> rpcJob \in timedOut,
                             afterRecorded |-> rpcJob \in recorded])
    /\ txState' = [i \in 1..(Len(sent) + 1) |->
                      IF i = Len(sent) + 1 THEN "pending"
                      ELSE IF i \in PendingWith(rpcTx.nonce) THEN "dropped"
                      ELSE txState[i]]
    /\ rpcHash' = Len(sent) + 1
    /\ UNCHANGED <<chainCount, recorded, timedOut, sends, rpcJob, rpcTx, rpcReceipt, rpcOut>>

\* lines 135-136, 149-151: signing raises, or the node rejects the raw
\* transaction (nonce too low, replacement underpriced, unreachable).
BroadcastFail ==
    /\ UNCHANGED <<ipfsVars, hashVars, engVars, pubVars>>
    /\ rpcPc = "estimated"
    /\ rpcPc' = "done"
    /\ rpcOut' = Raised
    /\ UNCHANGED <<chainVars, timedOut, sends, rpcJob, rpcTx, rpcHash, rpcReceipt>>

\* lines 141-147: wait_for_transaction_receipt returns the receipt of the
\* mined transaction.
Receipt ==
    /\ UNCHANGED <<ipfsVars, hashVars, engVars, pubVars>>
    /\ rpcPc = "waiting"
    /\ txState[rpcHash] \in {"ok", "reverted"}
    /\ rpcPc' = "done"
    /\ rpcReceipt' = [got |-> TRUE, status |-> ReceiptStatus(rpcHash)]
    /\ rpcOut' = AfterReceipt(ReceiptStatus(rpcHash), rpcHash)
    /\ UNCHANGED <<chainVars, timedOut, sends, rpcJob, rpcTx, rpcHash>>

\* Faulty variant: on the receipt timeout the call signs and broadcasts the
\* transaction again and goes on waiting.
RebroadcastOnTimeout ==
    /\ UNCHANGED <<ipfsVars, hashVars, engVars, pubVars>>
    /\ rpcPc = "waiting"
    /\ txState[rpcHash] \in {"pending", "dropped"}
    /\ Len(sent) <= MaxSends
    /\ sent' = Append(sent, sent[rpcHash])
    /\ txState' = Append(txState, "pending")
    /\ rpcHash' = Len(sent) + 1
    /\ timedOut' = timedOut \cup {rpcJob}
    /\ UNCHANGED <<chainCount, recorded, sends, rpcPc, rpcJob, rpcTx, rpcReceipt, rpcOut>>

\* lines 141, 149-151: no receipt within timeout=120: TimeExhausted is
\* raised; the transaction stays where it is.
ReceiptTimeout ==
    /\ UNCHANGED <<ipfsVars, hashVars, engVars, pubVars>>
    /\ rpcPc = "waiting"
    /\ txState[rpcHash] \in {"pending", "dropped"}
    /\ rpcPc' = "done"
    /\ rpcOut' = Raised
    /\ timedOut' = timedOut \cup {rpcJob}
    /\ UNCHANGED <<chainVars, sends, rpcJob, rpcTx, rpcHash, rpcReceipt>>

\* The caller takes the hash or the exception; the next call may start.
Taken ==
    /\ UNCHANGED <<ipfsVars, hashVars, engVars, pubVars>>
    /\ rpcPc = "done"
    /\ sends < MaxSends
    /\ rpcPc' = "idle"
    /\ rpcJob' = 1
    /\ rpcTx' = NoTx
    /\ rpcHash' = 0
    /\ rpcReceipt' = NoReceipt
    /\ rpcOut' = NoOutcome
    /\ UNCHANGED <<chainVars, timedOut, sends>>

\* The chain mines the account's pending transaction with the next nonce;
\* a successful submitResult records the job's result.
Mine(i, ok) ==
    /\ UNCHANGED <<ipfsVars, hashVars, engVars, pubVars>>
    /\ i \in DOMAIN sent
    /\ txState[i] = "pending"
    /\ sent[i].nonce = chainCount
    /\ chainCount' = chainCount + 1
    /\ txState' = [txState EXCEPT ![i] = IF ok THEN "ok" ELSE "reverted"]
    /\ recorded' = IF ok THEN recorded \cup {sent[i].job} ELSE recorded
    /\ UNCHANGED <<sent, callVars, timedOut, sends>>

MineOk(i) == Mine(i, TRUE)

MineReverted(i) == Mine(i, FALSE)

NextRpc ==
    \/ \E j \in Jobs : Build(j)
    \/ \E j \in Jobs : BuildFail(j)
    \/ \E est \in GasEstimates : EstimateOk(est)
    \/ EstimateFail
    \/ Broadcast
    \/ BroadcastFail
    \/ Receipt
    \/ ReceiptTimeout
    \/ Taken
    \/ \E i \in DOMAIN sent : MineOk(i)
    \/ \E i \in DOMAIN sent : MineReverted(i)

(***************************************************************************)
(* Result hashing: engine/onnx_runtime.py 111-128, vllm_runtime.py 105-122 *)
(*                                                                         *)
(* A structured value is a record [t, n, s, items]: t its Python type, n   *)
(* the value of a number, s the text of a string, items the elements of a  *)
(* list or the (key, value) entries of a dict in insertion order. A        *)
(* serialization is a sequence of tokens <<kind, text, number>>.           *)
(***************************************************************************)
PyInt(n) == [t |-> "int", n |-> n, s |-> "", items |-> <<>>]
PyFloat(n) == [t |-> "float", n |-> n, s |-> "", items |-> <<>>]
NaN == [t |-> "nan", n |-> 0, s |-> "", items |-> <<>>]
PosInf == [t |-> "inf", n |-> 0, s |-> "", items |-> <<>>]
NegInf == [t |-> "ninf", n |-> 0, s |-> "", items |-> <<>>]
Str(x) == [t |-> "str", n |-> 0, s |-> x, items |-> <<>>]
\* A generated text: the completion of prompt x cut after len tokens.
Text(x, len) == [t |-> "str", n |-> len, s |-> x, items |-> <<>>]
List(xs) == [t |-> "list", n |-> 0, s |-> "", items |-> xs]
Dict(es) == [t |-> "dict", n |-> 0, s |-> "", items |-> es]
Entry(key, val) == [k |-> key, v |-> val]

Punct(x) == <<"punct", x, 0>>

\* Python's ordering of the key strings the model uses (str.__lt__).
KeyOrder == <<"a", "b", "batch_size", "max_tokens", "model", "outputs",
              "params", "prompts", "seed", "temperature", "x", "y", "z">>

KeyRank(key) == CHOOSE i \in DOMAIN KeyOrder : KeyOrder[i] = key

KeyLess(k1, k2) == KeyRank(k1) < KeyRank(k2)

RECURSIVE InsertSorted(_, _)
InsertSorted(e, es) ==
    IF es = <<>> THEN <<e>>
    ELSE IF KeyLess(e.k, Head(es).k) THEN <<e>> \o es
    ELSE <<Head(es)>> \o InsertSorted(e, Tail(es))

RECURSIVE SortedByKey(_)
SortedByKey(es) ==
    IF es = <<>> THEN <<>> ELSE InsertSorted(Head(es), SortedByKey(Tail(es)))

\* Faulty variant: sort_keys left out, entries stay in insertion order.
InsertionOrder(es) == es

\* json.dumps(..., sort_keys=True): the entries of every dict are emitted in
\* the order of their keys.
SortKeys(es) == SortedByKey(es)

\* json's encoding of one number: int.__repr__, float.__repr__, and for the
\* non-finite floats the literals NaN, Infinity, -Infinity.
NumberToken(v) ==
    CASE v.t = "int" -> <<"int", "", v.n>>
      [] v.t = "float" -> <<"float", "", v.n>>
      [] v.t = "nan" -> <<"lit", "NaN", 0>>
      [] v.t = "inf" -> <<"lit", "Infinity", 0>>
      [] v.t = "ninf" -> <<"lit", "-Infinity", 0>>

RECURSIVE Encode(_), EncodeItems(_), EncodeEntries(_)
\* json.dumps with separators=(',', ':'): no whitespace between tokens.
Encode(v) ==
    CASE v.t = "str" -> << <<"str", v.s, v.n>> >>
      [] v.t = "list" -> <<Punct("[")>> \o EncodeItems(v.items) \o <<Punct("]")>>
      [] v.t = "dict" ->
            <<Punct("{")>> \o EncodeEntries(SortKeys(v.items)) \o <<Punct("}")>>
      [] OTHER -> <<NumberToken(v)>>

EncodeItems(xs) ==
    IF xs = <<>> THEN <<>>
    ELSE IF Len(xs) = 1 THEN Encode(xs[1])
    ELSE Encode(xs[1]) \o <<Punct(",")>> \o EncodeItems(Tail(xs))

EncodeEntries(es) ==
    IF es = <<>> THEN <<>>
    ELSE IF Len(es) = 1
         THEN << <<"key", es[1].k, 0>>, Punct(":") >> \o Encode(es[1].v)
    ELSE << <<"key", es[1].k, 0>>, Punct(":") >> \o Encode(es[1].v)
            \o <<Punct(",")>> \o EncodeEntries(Tail(es))

RECURSIVE HasNonFinite(_)
HasNonFinite(v) ==
    CASE v.t \in {"nan", "inf", "ninf"} -> TRUE
      [] v.t = "list" -> \E i \in DOMAIN v.items : HasNonFinite(v.items[i])
      [] v.t = "dict" -> \E i \in DOMAIN v.items : HasNonFinite(v.items[i].v)
      [] OTHER -> FALSE

\* json.dumps(obj, allow_nan=...): with allow_nan False a non-finite float
\* raises ValueError; with allow_nan True it is written out.
JsonDumps(v, allow_nan) ==
    IF ~allow_nan /\ HasNonFinite(v)
    THEN [kind |-> "error", value |-> <<>>]
    ELSE [kind |-> "ok", value |-> Encode(v)]

\* json.dumps is called without allow_nan (onnx_runtime.py 123,
\* vllm_runtime.py 117): the library's default, True, applies.
AllowNanDefault == TRUE

\* hashlib.sha256(...).hexdigest(): an ideal digest, one value per input.
Sha256Hex(bytes) == << <<"sha256", "", 0>> >> \o bytes

NoResult == [kind |-> "none", value |-> <<>>]

\* compute_hash of both engines: the same three lines.
HashOf(json) ==
    IF json.kind = "error" THEN [kind |-> "error", value |-> <<>>]
    ELSE [kind |-> "digest", value |-> << <<"0x", "", 0>> >> \o Sha256Hex(json.value)]

\* ONNXEngine.compute_hash, onnx_runtime.py 111-128
ONNX_compute_hash(output_dict) == HashOf(JsonDumps(output_dict, AllowNanDefault))

HexDigestOnly(results) ==
    [kind |-> "digest",
     value |-> Sha256Hex(JsonDumps(results, AllowNanDefault).value)]

\* VLLMEngine.compute_hash, vllm_runtime.py 105-122
VLLM_compute_hash(results) == HashOf(JsonDumps(results, AllowNanDefault))

\* The mapping a structured value denotes: a dict as the set of its entries,
\* a list as the sequence of its elements.
RECURSIVE Abstract(_)
Abstract(v) ==
    CASE v.t = "list" ->
            [t |-> "list", n |-> 0, s |-> "",
             items |-> [i \in DOMAIN v.items |-> Abstract(v.items[i])],
             map |-> {}]
      [] v.t = "dict" ->
            [t |-> "dict", n |-> 0, s |-> "", items |-> <<>>,
             map |-> {Entry(v.items[i].k, Abstract(v.items[i].v)) :
                         i \in DOMAIN v.items}]
      [] OTHER -> [t |-> v.t, n |-> v.n, s |-> v.s, items |-> <<>>, map |-> {}]

\* Bounded inputs: an output array under "x" and a nested mapping under "y",
\* in either insertion order at both levels.
ArrayNumbers == {PyFloat(1), PyFloat(2), NaN, NegInf}
NestedNumbers == {PyFloat(1), PosInf}
SeqsUpTo(S, n) == UNION {[1..m -> S] : m \in 0..n}
Arrays == {List(xs) : xs \in SeqsUpTo(ArrayNumbers, MaxListLen)}
NestedDicts ==
    {Dict(<<Entry("a", p), Entry("b", q)>>) : p, q \in NestedNumbers}
    \cup {Dict(<<Entry("b", q), Entry("a", p)>>) : p, q \in NestedNumbers}
HashInputs ==
    {Dict(<<Entry("x", arr), Entry("y", d)>>) : arr \in Arrays, d \in NestedDicts}
    \cup {Dict(<<Entry("y", d), Entry("x", arr)>>) : arr \in Arrays, d \in NestedDicts}

HashIdle ==
    /\ href = Dict(<<>>)
    /\ hval = Dict(<<>>)
    /\ hfirst = NoResult
    /\ hres = NoResult
    /\ hby = "none"

HashInit ==
    /\ href \in HashInputs
    /\ hval = href
    /\ hfirst = NoResult
    /\ hres = NoResult
    /\ hby = "none"

SwapAt(xs, i) ==
    [j \in DOMAIN xs |-> IF j = i THEN xs[i + 1] ELSE IF j = i + 1 THEN xs[i] ELSE xs[j]]

\* The first call: ONNXEngine.compute_hash(href).
HashFirst ==
    /\ UNCHANGED <<ipfsVars, rpcVars, engVars, pubVars>>
    /\ hfirst = NoResult
    /\ hfirst' = ONNX_compute_hash(href)
    /\ UNCHANGED <<href, hval, hres, hby>>

\* A later call on the current value, by either engine's compute_hash.
HashAgainOnnx ==
    /\ UNCHANGED <<ipfsVars, rpcVars, engVars, pubVars>>
    /\ hres = NoResult
    /\ hres' = ONNX_compute_hash(hval)
    /\ hby' = "onnx"
    /\ UNCHANGED <<href, hfirst, hval>>

HashAgainVllm ==
    /\ UNCHANGED <<ipfsVars, rpcVars, engVars, pubVars>>
    /\ hres = NoResult
    /\ hres' = VLLM_compute_hash(hval)
    /\ hby' = "vllm"
    /\ UNCHANGED <<href, hfirst, hval>>

\* The caller builds the same mapping with two top-level keys inserted in
\* the other order.
SwapTopKeys(i) ==
    /\ UNCHANGED <<ipfsVars, rpcVars, engVars, pubVars>>
    /\ i \in 1..(Len(hval.items) - 1)
    /\ hval' = Dict(SwapAt(hval.items, i))
    /\ hres' = NoResult
    /\ hby' = "none"
    /\ UNCHANGED <<href, hfirst>>

\* ... with two keys of a nested mapping inserted in the other order.
SwapNestedKeys(i, j) ==
    /\ UNCHANGED <<ipfsVars, rpcVars, engVars, pubVars>>
    /\ i \in DOMAIN hval.items
    /\ hval.items[i].v.t = "dict"
    /\ j \in 1..(Len(hval.items[i].v.items) - 1)
    /\ hval' = Dict([hval.items EXCEPT ![i] =
                        Entry(@.k, Dict(SwapAt(@.v.items, j)))])
    /\ hres' = NoResult
    /\ hby' = "none"
    /\ UNCHANGED <<href, hfirst>>

\* The caller passes an array with two unequal neighbours exchanged.
SwapArrayElements(i, j) ==
    /\ UNCHANGED <<ipfsVars, rpcVars, engVars, pubVars>>
    /\ i \in DOMAIN hval.items
    /\ hval.items[i].v.t = "list"
    /\ j \in 1..(Len(hval.items[i].v.items) - 1)
    /\ hval.items[i].v.items[j] # hval.items[i].v.items[j + 1]
    /\ hval' = Dict([hval.items EXCEPT ![i] =
                        Entry(@.k, List(SwapAt(@.v.items, j)))])
    /\ hres' = NoResult
    /\ hby' = "none"
    /\ UNCHANGED <<href, hfirst>>

NextHash ==
    \/ HashFirst
    \/ HashAgainOnnx
    \/ HashAgainVllm
    \/ \E i \in 1..2 : SwapTopKeys(i)
    \/ \E i \in 1..2, j \in 1..2 : SwapNestedKeys(i, j)
    \/ \E i \in 1..2, j \in 1..MaxListLen : SwapArrayElements(i, j)

(***************************************************************************)
(* Inference engines: engine/vllm_runtime.py, engine/onnx_runtime.py       *)
(***************************************************************************)
Models == {"m1", "m2"}
PromptPool == <<"a", "b", "c", "d", "e">>
PromptLists == {SubSeq(PromptPool, 1, n) : n \in 0..MaxPrompts}
MaxTokenChoices == {1, 2}
Temperatures == {0, 1}
BatchSizes == 1..MaxBatch

\* vllm_runtime.py 35, 65, 90: seed 0
Seed == 0

\* vllm_runtime.py 47: temperature: float = 0.0, what run_batch runs with
DefaultTemperature == 0

Min(a, b) == IF a < b THEN a ELSE b

\* The length in tokens at which a model ends its completion by itself.
EosAt(model, prompt) == IF model = "m1" THEN 1 ELSE 2

\* self.llm.generate (vllm_runtime.py 74, 79): the text generated for one
\* prompt, named by the prompt and its length in tokens: generation stops at
\* max_tokens or at the model's end of sequence, whichever comes first.
Generate(model, prompt, max_tokens, temperature) ==
    Text(prompt, Min(max_tokens, EosAt(model, prompt)))

\* vllm_runtime.py 74-80: generated_texts, one per prompt, in prompt order
GeneratedTexts(model, prompts, max_tokens, temperature) ==
    [i \in DOMAIN prompts |-> Generate(model, prompts[i], max_tokens, temperature)]

StrList(xs) == List([i \in DOMAIN xs |-> Str(xs[i])])

\* vllm_runtime.py 83-95: the structure run_inference hashes
InferenceResults(model, prompts, texts, max_tokens, temperature) ==
    Dict(<<Entry("prompts", StrList(prompts)),
           Entry("outputs", List(texts)),
           Entry("model", Str(model)),
           Entry("params", Dict(<<Entry("max_tokens", PyInt(max_tokens)),
                                  Entry("temperature", PyFloat(temperature)),
                                  Entry("seed", PyInt(Seed))>>))>>)

\* VLLMEngine.run_inference, vllm_runtime.py 43-99: (generated_texts, hash)
VLLM_run_inference(model, prompts, max_tokens, temperature) ==
    [outputs |-> GeneratedTexts(model, prompts, max_tokens, temperature),
     hash |-> VLLM_compute_hash(
                 InferenceResults(model, prompts,
                     GeneratedTexts(model, prompts, max_tokens, temperature),
                     max_tokens, temperature))]

\* vllm_runtime.py 145: prompts[i:i + batch_size], i counted from 0
Slice(xs, lo, hi) == SubSeq(xs, lo + 1, Min(hi, Len(xs)))

\* Faulty variant: a chunk's outputs are put in front.
ExtendFront(all, outs) == outs \o all

\* vllm_runtime.py 149: all_outputs.extend(outputs)
Extend(all, outs) == all \o outs

\* vllm_runtime.py 152-158: the structure run_batch hashes
BatchResults(model, all_outputs, batch_size) ==
    Dict(<<Entry("outputs", List(all_outputs)),
           Entry("model", Str(model)),
           Entry("batch_size", PyInt(batch_size))>>)

\* The tensors session.run returns (onnx_runtime.py 93), after tolist().
OnnxOutputs ==
    {Dict(<<Entry("y", List(<<List(<<PyFloat(n)>>)>>))>>) : n \in {1, 3}}

\* onnx_runtime.py 43: self.input_names, the inputs the loaded model declares
InputNames == <<"x", "w">>

\* The key sets of the input_data dicts passed to run_inference.
InputDatas == SUBSET {"x", "w"}

PrepareInputLenient(input_names, input_data) ==
    [kind |-> "ok", missing |-> ""]

\* ONNXEngine.prepare_input, onnx_runtime.py 50-75: the declared names are
\* gone through in order; the first one that is not a key of input_data
\* raises ValueError("Missing input: {name}").
PrepareInput(input_names, input_data) ==
    IF \A i \in DOMAIN input_names : input_names[i] \in input_data
    THEN [kind |-> "ok", missing |-> ""]
    ELSE [kind |-> "ValueError",
          missing |-> input_names[CHOOSE i \in DOMAIN input_names :
                                     /\ input_names[i] \notin input_data
                                     /\ \A j \in 1..(i - 1) :
                                           input_names[j] \in input_data]]

\* ONNXEngine.run_inference, onnx_runtime.py 87-109: prepare_input (89), then
\* session.run (93), output_dict (96-98) and its hash (101) are returned
\* (105); an exception of any step is logged and re-raised (107-109).
ONNX_run_inference(input_data, session_out) ==
    IF PrepareInput(InputNames, input_data).kind = "ok"
    THEN [session_ran |-> TRUE, raised |-> "", outputs |-> session_out,
          hash |-> ONNX_compute_hash(session_out)]
    ELSE [session_ran |-> FALSE,
          raised |-> PrepareInput(InputNames, input_data).kind,
          outputs |-> Dict(<<>>), hash |-> NoResult]

NoRun == [entry |-> "none", model |-> "", prompts |-> <<>>, max_tokens |-> 0,
          temperature |-> 0, batch_size |-> 0, outputs |-> List(<<>>),
          hash |-> NoResult, inputs |-> {}, session_ran |-> FALSE,
          raised |-> ""]

NoArgs == [model |-> "", prompts |-> <<>>, batch_size |-> 0, max_tokens |-> 0]

EngineIdle ==
    /\ runA = NoRun
    /\ runB = NoRun
    /\ bPc = "idle"
    /\ bArgs = NoArgs
    /\ bI = 0
    /\ bAll = <<>>

\* A finished call is kept in the first free slot.
Keep(run) ==
    /\ runB = NoRun
    /\ IF runA = NoRun
       THEN runA' = run /\ runB' = runB
       ELSE runA' = runA /\ runB' = run

\* VLLMEngine.run_inference called directly, vllm_runtime.py 43-99.
RunInference(model, prompts, max_tokens, temperature) ==
    /\ UNCHANGED <<ipfsVars, rpcVars, hashVars, pubVars>>
    /\ bPc = "idle"
    /\ Keep([entry |-> "vllm", model |-> model, prompts |-> prompts,
             max_tokens |-> max_tokens, temperature |-> temperature,
             batch_size |-> 0,
             outputs |-> List(VLLM_run_inference(model, prompts, max_tokens,
                                                 temperature).outputs),
             hash |-> VLLM_run_inference(model, prompts, max_tokens,
                                         temperature).hash,
             inputs |-> {}, session_ran |-> FALSE, raised |-> ""])
    /\ UNCHANGED <<bPc, bArgs, bI, bAll>>

\* ONNXEngine.run_inference called with input_data (its key set) on a model
\* whose session would return session_out; the call is kept with what it
\* returned or raised.
RunOnnx(model, input_data, session_out) ==
    /\ UNCHANGED <<ipfsVars, rpcVars, hashVars, pubVars>>
    /\ bPc = "idle"
    /\ Keep([entry |-> "onnx", model |-> model, prompts |-> <<>>,
             max_tokens |-> 0, temperature |-> 0, batch_size |-> 0,
             outputs |-> ONNX_run_inference(input_data, session_out).outputs,
             hash |-> ONNX_run_inference(input_data, session_out).hash,
             inputs |-> input_data,
             session_ran |-> ONNX_run_inference(input_data, session_out).session_ran,
             raised |-> ONNX_run_inference(input_data, session_out).raised])
    /\ UNCHANGED <<bPc, bArgs, bI, bAll>>

\* VLLMEngine.run_batch, vllm_runtime.py 141-144: all_outputs = [], i = 0.
BatchStart(model, prompts, batch_size, max_tokens) ==
    /\ UNCHANGED <<ipfsVars, rpcVars, hashVars, pubVars>>
    /\ bPc = "idle"
    /\ runB = NoRun
    /\ bPc' = "loop"
    /\ bArgs' = [model |-> model, prompts |-> prompts,
                 batch_size |-> batch_size, max_tokens |-> max_tokens]
    /\ bI' = 0
    /\ bAll' = <<>>
    /\ UNCHANGED <<runA, runB>>

\* vllm_runtime.py 144-149: one pass of the loop: the chunk is run through
\* run_inference and its outputs are appended.
BatchChunk ==
    /\ UNCHANGED <<ipfsVars, rpcVars, hashVars, pubVars>>
    /\ bPc = "loop"
    /\ bI < Len(bArgs.prompts)
    /\ bAll' = Extend(bAll,
                  VLLM_run_inference(bArgs.model,
                      Slice(bArgs.prompts, bI, bI + bArgs.batch_size),
                      bArgs.max_tokens, DefaultTemperature).outputs)
    /\ bI' = bI + bArgs.batch_size
    /\ UNCHANGED <<runA, runB, bPc, bArgs>>

\* vllm_runtime.py 151-160: the range is exhausted: the combined hash is
\* computed and (all_outputs, combined_hash) returned.
BatchEnd ==
    /\ UNCHANGED <<ipfsVars, rpcVars, hashVars, pubVars>>
    /\ bPc = "loop"
    /\ bI >= Len(bArgs.prompts)
    /\ Keep([entry |-> "batch", model |-> bArgs.model,
             prompts |-> bArgs.prompts, max_tokens |-> bArgs.max_tokens,
             temperature |-> DefaultTemperature,
             batch_size |-> bArgs.batch_size,
             outputs |-> List(bAll),
             hash |-> VLLM_compute_hash(
                         BatchResults(bArgs.model, bAll, bArgs.batch_size)),
             inputs |-> {}, session_ran |-> FALSE, raised |-> ""])
    /\ bPc' = "idle"
    /\ bArgs' = NoArgs
    /\ bI' = 0
    /\ bAll' = <<>>

NextEngine ==
    \/ \E m \in Models, ps \in PromptLists, mt \in MaxTokenChoices,
          temp \in Temperatures : RunInference(m, ps, mt, temp)
    \/ \E m \in Models, input \in InputDatas, out \in OnnxOutputs :
          RunOnnx(m, input, out)
    \/ \E m \in Models, ps \in PromptLists, bs \in BatchSizes,
          mt \in MaxTokenChoices : BatchStart(m, ps, bs, mt)
    \/ BatchChunk
    \/ BatchEnd

Init == IpfsInit /\ RpcInit /\ HashIdle /\ EngineIdle /\ PubInit

InitHash == IpfsInit /\ RpcInit /\ HashInit /\ EngineIdle /\ PubInit

Next ==
    \/ \E t \in Tasks, a \in Addresses : Download(t, a)
    \/ \E t \in Tasks : Response200(t)
    \/ \E t \in Tasks : ResponseFail(t)
    \/ \E t \in Tasks : WriteChunk(t)
    \/ \E t \in Tasks : Finish(t)
    \/ \E t \in Tasks : StreamFail(t)
    \/ \E t \in Tasks : Done(t)

Spec == Init /\ [][Next]_vars

SpecRpc == Init /\ [][NextRpc]_vars

SpecHash == InitHash /\ [][NextHash]_vars

SpecEngine == Init /\ [][NextEngine]_vars

InitPublish ==
    /\ IpfsInit \/ IpfsCachedA
    /\ RpcInit /\ HashIdle /\ EngineIdle /\ PubInit

SpecPublish == InitPublish /\ [][NextPublish]_vars

(***************************************************************************)
(* Chain client claims                                                     *)
(***************************************************************************)
Nonces == {sent[i].nonce : i \in DOMAIN sent}

\* C3: nonce discipline: no two broadcast transactions of the account carry
\* the same nonce, and no nonce value is skipped.
C3_NonceDiscipline ==
    /\ \A i, k \in DOMAIN sent : i # k => sent[i].nonce # sent[k].nonce
    /\ \A n \in Nonces : \A m \in 0..n : m \in Nonces

\* C4: no double submission: once a submitResult call for a job has timed out
\* on its receipt and the chain shows a result recorded for that job, no
\* further submitResult transaction for the job is broadcast.
C4_NoDoubleSubmission ==
    \A i \in DOMAIN sent : ~(sent[i].afterTimeout /\ sent[i].afterRecorded)

\* C5: submission outcome: a finished send_transaction call has returned the
\* transaction hash exactly when it obtained a receipt with status 1 for the
\* transaction it broadcast; in every other case it has raised and returned
\* no hash.
C5_SubmissionOutcome ==
    rpcPc = "done" =>
        /\ rpcOut.kind \in {"returned", "raised"}
        /\ (rpcOut.kind = "returned") <=>
               (rpcReceipt.got /\ rpcReceipt.status = 1)
        /\ rpcOut.kind = "returned" =>
               /\ rpcHash \in DOMAIN sent
               /\ rpcOut.value = rpcHash
               /\ txState[rpcHash] = "ok"
        /\ rpcOut.kind = "raised" => rpcOut.value = 0

\* A call confirmed after an earlier call of the run timed out.
C5_Witness ==
    /\ rpcPc = "done"
    /\ rpcOut.kind = "returned"
    /\ rpcReceipt.status = 1
    /\ timedOut # {}

\* C18: the gas limit of a submitted transaction is int(estimate * 1.2) when
\* the estimation succeeded and 500000 when it failed; a failed estimation
\* does not end the call, which goes on to signing and broadcast.
C18_GasLimit ==
    /\ \A i \in DOMAIN sent :
          sent[i].gas = IF sent[i].estimate > 0
                        THEN (sent[i].estimate * 12) \div 10
                        ELSE 500000
    /\ (rpcPc = "estimated" /\ rpcTx.estimate = 0) =>
          (rpcOut.kind = "none" /\ rpcTx.gas = 500000)

\* One transaction was broadcast after a failed estimation, another after an
\* estimate whose 20% margin is not a whole number.
C18_Witness ==
    \E i, j \in DOMAIN sent :
        /\ sent[i].estimate = 0 /\ sent[i].gas = 500000
        /\ sent[j].estimate = 100001 /\ sent[j].gas = 120001

\* C19: a send_transaction call broadcasts at most one transaction and never
\* retries: a transaction is broadcast only by a call that has not broadcast
\* and has not ended; after a failure only a new call broadcasts again.
C19_OneBroadcastPerCall ==
    [][Len(sent') > Len(sent) =>
          /\ Len(sent') = Len(sent) + 1
          /\ rpcPc = "estimated"
          /\ rpcHash = 0
          /\ rpcOut.kind = "none"
          /\ Len(sent') <= sends]_vars

\* A first call timed out on the receipt and ended; a second call for the
\* same job has broadcast its own transaction.
C19_Witness ==
    /\ sends = 2
    /\ Len(sent) = 2
    /\ sent[1].job = sent[2].job
    /\ sent[2].afterTimeout
    /\ rpcPc = "waiting"
    /\ rpcHash = 2

(***************************************************************************)
(* Result hashing claims                                                   *)
(***************************************************************************)
CanonicalJson(v) == JsonDumps(v, AllowNanDefault).value

\* C9: hash determinism: two values that denote the same mapping, whatever
\* the insertion order of their keys at any nesting level, get the same
\* digest on every call; two values that differ in the order of an array's
\* elements are serialized differently.
C9_HashDeterminism ==
    /\ (hfirst.kind = "digest" /\ hres.kind = "digest"
            /\ Abstract(href) = Abstract(hval)) => hres = hfirst
    /\ Abstract(href) # Abstract(hval) => CanonicalJson(href) # CanonicalJson(hval)

\* Both calls made, on values whose keys were inserted in different orders
\* at the top level and inside the nested mapping.
C9_Witness ==
    /\ hfirst.kind = "digest"
    /\ hres.kind = "digest"
    /\ Abstract(href) = Abstract(hval)
    /\ href.items[1].k # hval.items[1].k
    /\ \E i, j \in 1..2 :
          /\ href.items[i].v.t = "dict"
          /\ hval.items[j].v.t = "dict"
          /\ href.items[i].v.items[1].k # hval.items[j].v.items[1].k

\* C10: non-finite rejection: compute_hash fails with a serialization error
\* on a value that holds NaN, Infinity or -Infinity at any depth, and
\* returns a digest only for values whose numbers are all finite.
C10_NonFiniteRejected ==
    /\ (hfirst.kind # "none" /\ HasNonFinite(href)) => hfirst.kind = "error"
    /\ (hres.kind # "none" /\ HasNonFinite(hval)) => hres.kind = "error"
    /\ hfirst.kind = "digest" => ~HasNonFinite(href)
    /\ hres.kind = "digest" => ~HasNonFinite(hval)

\* C17: the hasher is engine-agnostic: for one structured value,
\* VLLMEngine.compute_hash returns what ONNXEngine.compute_hash returns:
\* '0x' followed by the SHA-256 of the canonical serialization.
C17_EngineAgnosticHash ==
    (hby = "vllm" /\ hfirst.kind # "none" /\ hval = href) =>
        /\ hres = hfirst
        /\ hres.kind = "digest"
        /\ hres.value[1] = <<"0x", "", 0>>
        /\ SubSeq(hres.value, 2, Len(hres.value)) = Sha256Hex(CanonicalJson(hval))

\* Both engines have hashed one value that has two top-level keys.
C17_Witness ==
    /\ hby = "vllm"
    /\ hfirst.kind = "digest"
    /\ hval = href
    /\ Len(hval.items) = 2
    /\ hres = hfirst

(***************************************************************************)
(* Engine claims                                                           *)
(***************************************************************************)
Runs == {runA, runB}

\* C6: metadata is part of every result hash: two finished executions of
\* the same entry point with the same output payload but a different model,
\* max_tokens or temperature never have the same result hash.
C6_MetadataInHash ==
    (/\ runA.entry # "none"
     /\ runA.entry = runB.entry
     /\ runA.hash.kind = "digest"
     /\ runB.hash.kind = "digest"
     /\ runA.outputs = runB.outputs
     /\ \/ runA.model # runB.model
        \/ runA.max_tokens # runB.max_tokens
        \/ runA.temperature # runB.temperature)
    => runA.hash # runB.hash

\* C7: batch hash equivalence: run_batch and a single run_inference over the
\* same prompts with the same model and max_tokens, producing the same
\* texts, return the same hash; the batch hash does not depend on the batch
\* size.
C7_BatchHashEquivalence ==
    \A a, b \in Runs :
        (/\ a.entry = "batch"
         /\ b.entry \in {"vllm", "batch"}
         /\ a.model = b.model
         /\ a.prompts = b.prompts
         /\ a.max_tokens = b.max_tokens
         /\ a.temperature = b.temperature
         /\ a.outputs = b.outputs)
        => a.hash = b.hash

\* The texts a single non-batched call over the whole prompt list returns.
Unbatched(model, prompts, max_tokens) ==
    [i \in DOMAIN prompts |->
        Generate(model, prompts[i], max_tokens, DefaultTemperature)]

\* C8: batch order preservation: run_batch handles the chunks one after the
\* other in index order, so all_outputs always holds the outputs of the
\* prompts handled so far, in prompt order; it returns exactly one output per
\* prompt, position i holding the output for prompt i: the list a single
\* non-batched call over the same prompts returns.
C8_BatchOrder ==
    /\ bPc = "loop" =>
          bAll = Unbatched(bArgs.model,
                           SubSeq(bArgs.prompts, 1, Min(bI, Len(bArgs.prompts))),
                           bArgs.max_tokens)
    /\ \A a \in Runs :
          a.entry = "batch" =>
             /\ Len(a.outputs.items) = Len(a.prompts)
             /\ a.outputs.items = Unbatched(a.model, a.prompts, a.max_tokens)
    /\ \A a, b \in Runs :
          (/\ a.entry = "batch"
           /\ b.entry = "vllm"
           /\ a.model = b.model
           /\ a.prompts = b.prompts
           /\ a.max_tokens = b.max_tokens
           /\ a.temperature = b.temperature)
          => a.outputs = b.outputs

\* Prompts a, b, c run with batch size 2, beside the non-batched call over
\* the same prompts.
C8_Witness ==
    /\ runA.entry = "batch"
    /\ runA.prompts = <<"a", "b", "c">>
    /\ runA.batch_size = 2
    /\ runB.entry = "vllm"
    /\ runB.prompts = runA.prompts
    /\ runB.model = runA.model
    /\ runB.max_tokens = runA.max_tokens
    /\ runB.temperature = runA.temperature
    /\ runA.outputs = runB.outputs

\* C20: a missing input is rejected before execution: when input_data lacks
\* a declared input name, ONNXEngine.run_inference raises the input error,
\* the session is not run and neither outputs nor a hash are returned; the
\* session runs only when every declared name is present.
C20_MissingInputRejected ==
    \A r \in Runs :
        r.entry = "onnx" =>
            /\ (\E i \in DOMAIN InputNames : InputNames[i] \notin r.inputs) =>
                  /\ r.raised = "ValueError"
                  /\ ~r.session_ran
                  /\ r.outputs = Dict(<<>>)
                  /\ r.hash = NoResult
            /\ r.session_ran =>
                  \A i \in DOMAIN InputNames : InputNames[i] \in r.inputs

\* One call without the second declared input, one with both.
C20_Witness ==
    /\ runA.entry = "onnx" /\ runA.inputs = {"x"} /\ runA.raised = "ValueError"
    /\ runB.entry = "onnx" /\ runB.inputs = {"x", "w"} /\ runB.session_ran
    /\ runB.hash.kind = "digest"

(***************************************************************************)
(* Artifact cache claims                                                   *)
(***************************************************************************)
InFlight(c) == {t \in Tasks : tcid[t] = c /\ tpc[t] \in {"get", "stream"}}

\* C1: single-flight fetch: at most one remote retrieval is in flight per
\* address; concurrent calls for one uncached address start exactly one GET.
C1_SingleFlight == \A c \in Cids : Cardinality(InFlight(c)) <= 1

\* C2: a cache path is returned only once the whole artifact is in the file,
\* and the bytes behind a returned path never change afterwards.
C2_ReturnedComplete == \A c \in handed : cache[c].data = Content(c)

\* C12: once a download of an address has returned, every later call for
\* it, bare or 'ipfs://'-prefixed, returns the cache path keyed by the bare
\* address at once: no GET is started and the cache is left as it is.
C12_CacheHitIdempotent ==
    [][\A t \in Tasks :
          (tpc[t] = "idle" /\ tpc'[t] # "idle" /\ tcid'[t] \in handed) =>
              /\ tpc'[t] = "returned"
              /\ tret'[t] = CachePath(tcid'[t])
              /\ tcid'[t] \in Cids
              /\ gets' = gets
              /\ cache' = cache]_vars

\* Three calls for one address with a single GET: the coroutine that fetched
\* it still holds its result, the other one was answered from the cache,
\* released its result and was answered from the cache again.
C12_Witness ==
    \E c \in Cids, t, u \in Tasks :
        /\ calls = 3
        /\ gets[c] = 1
        /\ \A d \in Cids \ {c} : gets[d] = 0
        /\ tcid[t] = c /\ tpc[t] = "returned" /\ tpos[t] = 0
        /\ tcid[u] = c /\ tpc[u] = "returned" /\ tpos[u] = NumChunks
        /\ tret[t] = CachePath(c)
        /\ cache[c].data = Content(c)

\* C13: the bytes a fetch took from the remote network are re-hashed and
\* compared with the requested address before the path is returned: the call
\* that streamed the file never returns it with bytes the address does not
\* name.
C13_ContentIntegrity ==
    \A t \in Tasks :
        (tpc[t] = "returned" /\ tpos[t] = NumChunks) =>
            verify_cid(cache[tcid[t]].data, tcid[t])

\* ipfs_utils.py 50: how many times the running call has executed
\* session.get: once on the miss path, never on the hit path.
Attempts(t) ==
    IF \/ tpc[t] \in {"get", "stream", "raised"}
       \/ tpc[t] = "returned" /\ tpos[t] = NumChunks
    THEN 1 ELSE 0

\* C16: an address that is neither cached nor obtainable is fetched again
\* with backoff before the call gives up: a call ends with the
\* artifact-unavailable error only after it has retried, and with no path.
C16_BoundedRetry ==
    \A t \in Tasks :
        tpc[t] = "raised" => (Attempts(t) > 1 /\ tret[t] = NoPath)

\* C21: a failed fetch leaves the cache unchanged: when download_from_ipfs
\* has raised for an address that no other call has fetched, the cache holds
\* no file for that address, so the next call for it starts a GET again.
C21_FailedFetchLeavesNoEntry ==
    \A t \in Tasks :
        (tpc[t] = "raised" /\ gets[tcid[t]] = 1) => ~Exists(tcid[t])

(***************************************************************************)
(* Publication claims                                                      *)
(***************************************************************************)
Uploaded == {t \in Tasks : pubOp[t] = "upload" /\ pubPc[t] = "done"}

C15_ExplicitTimeouts ==
    /\ \A t \in Tasks :
          /\ tpc[t] \in {"get", "stream"} => RequestTimeout("download") = "explicit"
          /\ pubPc[t] = "posting" => RequestTimeout(pubOp[t]) = "explicit"
    /\ rpcPc = "waiting" => RequestTimeout("receipt") = "explicit"

PinCalls == {t \in Tasks : pubOp[t] = "pin"}

\* C22: pinning is best-effort: pin_to_ipfs never raises, whether the node
\* answers 200, another status or not at all; it posts the bare address,
\* with an 'ipfs://' prefix stripped; and no step of it reads or changes the
\* artifact cache.
C22_PinBestEffort ==
    /\ [](\A t \in PinCalls :
            /\ pubArg[t] \in Cids
            /\ pubAddr[t] \in {<<pubArg[t]>>, <<"ipfs://", pubArg[t]>>}
            /\ pubPc[t] = "done" => pubOut[t] = [kind |-> "returned", value |-> NoAddress])
    /\ [](pinned \subseteq Cids)
    /\ [][(\E t \in Tasks : pubOp'[t] = "pin" /\ pubPc'[t] # pubPc[t]) =>
             UNCHANGED ipfsVars]_vars

\* With QmA in the cache, a pin of 'ipfs://QmA' was accepted by the node
\* under the bare address, and another pin failed on the connection and
\* returned all the same.
C22_Witness ==
    \E t, u \in PinCalls :
        /\ Exists("QmA")
        /\ pubAddr[t] = <<"ipfs://", "QmA">>
        /\ pubPc[t] = "done" /\ pubResp[t] = "ok"
        /\ "QmA" \in pinned
        /\ pubPc[u] = "done" /\ pubResp[u] = "unreachable"
        /\ pubOut[u].kind = "returned"

====
